---- MODULE Spec2Model ----
(***************************************************************************)
(* statcast: the BetterLME4 estimator (statcast/better/mixed.py) and the   *)
(* plotting helpers (statcast/tools/plot.py).                              *)
(*                                                                         *)
(* Spec      the estimator: its attributes, fitD, predictD, chooseFormula  *)
(*           and the caller's assignments to yLabels.                      *)
(* SpecPlot  the plotting functions, each applied to inputs drawn from     *)
(*           bounded sets.                                                 *)
(*                                                                         *)
(* The external libraries (lme4 through rpy2, scikit-learn's validation    *)
(* and grid search, scipy, matplotlib) are the environment: where a call   *)
(* into them can raise, the action takes the outcome as an input.          *)
(***************************************************************************)
EXTENDS Integers, Sequences, FiniteSets, TLC

VARIABLES
    self,   \* the BetterLME4 instance: its attributes
    given,  \* the formulas the caller supplied, or chooseFormula chose (history)
    last,   \* the last estimator call: operation, exception, result
    plot    \* the last plotting call: function, arguments, outcome

vars == <<self, given, last, plot>>

(***************************************************************************)
(* Bounds                                                                  *)
(***************************************************************************)
MaxY == 2          \* response labels available to yLabels

YNames == <<"y1", "y2", "y3", "y4">>

Range(s) == {s[i] : i \in 1..Len(s)}

\* The yLabels a caller sets: the first k response names, or any one of
\* them (column names are distinct, and one name is as good as another).
YLabelLists ==
    {SubSeq(YNames, 1, k) : k \in 0..MaxY} \cup {<<YNames[i]>> : i \in 1..MaxY}

\* The xLabels a caller sets: the estimator's own code only tests them for
\* emptiness and hands them to pandas.
XLabelLists == {<<>>, <<"x1">>}

(***************************************************************************)
(* The formulas parameter: a Python str, or a tuple/list of str.           *)
(***************************************************************************)
Str(s) == [isStr |-> TRUE, str |-> s, seq |-> <<>>]
Tup(t) == [isStr |-> FALSE, str |-> "", seq |-> t]

FormulaStrings == {"f", "g"}
FormulaValues ==
    {Str(s) : s \in FormulaStrings \cup {""}}
    \cup {Tup(t) : t \in UNION {[1..k -> FormulaStrings] : k \in 0..MaxY}}

\* Python truthiness of a str or a tuple, and of a list.
Truthy(f) == IF f.isStr THEN f.str # "" ELSE Len(f.seq) > 0
TruthyList(l) == Len(l) > 0

\* Times with one repetition too many.
TimesOneMore(t, n) == [i \in 1..(Len(t) * (n + 1)) |-> t[((i - 1) % Len(t)) + 1]]

\* Python's  t * n  on a tuple.
Times(t, n) == [i \in 1..(Len(t) * n) |-> t[((i - 1) % Len(t)) + 1]]

ErrUndefined == "betterLME must have xLabels, yLabels, and formulas defined"
ErrLength == "formulas must be a single string, or a tuple the same length as yLabels"

NoModels == [y \in {} |-> ""]

\* fitD, line 38: the guard on xLabels, yLabels and formulas.
Undefined(s) ==
    ~(TruthyList(s.xLabels) \/ TruthyList(s.yLabels) \/ Truthy(s.formulas))

\* fitD, lines 41-42: a str becomes a 1-tuple.
AsTuple(f) == IF f.isStr THEN Tup(<<f.str>>) ELSE f

\* The length test raising only for too few formulas.
LengthErrorTooFewOnly(f, n) == Len(f.seq) < n /\ Len(f.seq) # 1

\* fitD, line 43-48: the formulas-length test; TRUE when it raises.
LengthError(f, n) == Len(f.seq) # n /\ Len(f.seq) # 1

\* fitD, lines 43-45: a single formula is repeated once per response.
Broadcast(f, n) ==
    IF Len(f.seq) # n /\ Len(f.seq) = 1 THEN Tup(Times(f.seq, n)) ELSE f

\* fitD, line 55: the formula text handed to lmer.
FormulaText(yLabel, formula) == yLabel \o " ~ " \o formula

\* fitD, lines 53-60: the dicts after the first k responses were stored.
Fitted(yLabels, f, k) ==
    [y \in {yLabels[i] : i \in 1..k} |->
        FormulaText(y, f.seq[CHOOSE i \in 1..k : yLabels[i] = y])]

\* fitD, lines 51-52: where models_ and factors_ are first assigned.
Cleared(s) ==
    [s EXCEPT !.attrs = @ \cup {"models_", "factors_"},
              !.models_ = NoModels, !.factors_ = NoModels]

\* check_X_y over createX(data), createY(data) (line 49-50): no predictor
\* column always raises; otherwise the data decide (checkOK).
CheckRaises(s, checkOK) == Len(s.xLabels) = 0 \/ ~checkOK

(***************************************************************************)
(* What the environment decides in one fitD call.  checkOK: check_X_y      *)
(* accepts the data.  failAt: the response (1-based) whose external fit    *)
(* raises, 0 for none.  failIn: the call that raises there.                *)
(***************************************************************************)
FitOk == [checkOK |-> TRUE, failAt |-> 0, failIn |-> "none"]
FitOutcomes(n) ==
    {FitOk, [checkOK |-> FALSE, failAt |-> 0, failIn |-> "none"]}
    \cup {[checkOK |-> TRUE, failAt |-> k, failIn |-> c] :
            k \in 1..n, c \in {"lmer", "_factor"}}

fitD(s, o) ==
    IF Undefined(s) THEN [self |-> s, exc |-> ErrUndefined]
    ELSE
      LET f1 == AsTuple(s.formulas)
          n  == Len(s.yLabels)
          f2 == Broadcast(f1, n)
          s1 == [s EXCEPT !.formulas = f1]
          s2 == [s EXCEPT !.formulas = f2]
      IN  IF LengthError(f1, n) THEN [self |-> s1, exc |-> ErrLength]
          ELSE IF CheckRaises(s2, o.checkOK) THEN [self |-> s2, exc |-> "check_X_y"]
          ELSE IF o.failAt = 0
            THEN [self |-> [Cleared(s2) EXCEPT !.models_ = Fitted(s.yLabels, f2, n),
                                               !.factors_ = Fitted(s.yLabels, f2, n)],
                  exc |-> "none"]
          ELSE IF o.failIn = "lmer"
            THEN [self |-> [Cleared(s2) EXCEPT
                               !.models_ = Fitted(s.yLabels, f2, o.failAt - 1),
                               !.factors_ = Fitted(s.yLabels, f2, o.failAt - 1)],
                  exc |-> "lmer"]
          ELSE [self |-> [Cleared(s2) EXCEPT
                               !.models_ = Fitted(s.yLabels, f2, o.failAt),
                               !.factors_ = Fitted(s.yLabels, f2, o.failAt - 1)],
                exc |-> "_factor"]

\* check_is_fitted(self, ['models_', 'factors_']), line 93.
CheckIsFitted(s) == {"models_", "factors_"} \subseteq s.attrs

(***************************************************************************)
(* predictD(data).  arrayOK: check_array accepts createX(data).  failAt:   *)
(* the response whose external predict raises, 0 for none.  The result is  *)
(* the list of the returned frame's column labels.                         *)
(***************************************************************************)
predictD(s, arrayOK, failAt) ==
    LET n == Len(s.yLabels)
        missing == {i \in 1..n : s.yLabels[i] \notin DOMAIN s.models_}
        firstMissing == IF missing = {} THEN n + 1
                        ELSE CHOOSE i \in missing : \A j \in missing : i <= j
    IN  IF ~CheckIsFitted(s) THEN [exc |-> "NotFittedError", ret |-> <<>>]
        ELSE IF Len(s.xLabels) = 0 \/ ~arrayOK THEN [exc |-> "check_array", ret |-> <<>>]
        ELSE IF failAt \in 1..n /\ failAt < firstMissing
            THEN [exc |-> "predict_merMod", ret |-> <<>>]
        ELSE IF missing # {} THEN [exc |-> "KeyError", ret |-> <<>>]
        ELSE [exc |-> "none", ret |-> s.yLabels]

(***************************************************************************)
(* chooseFormula(data, formulas, refit).  choices: the formula the grid    *)
(* search picks for each response, among the candidates.  searchFailAt:    *)
(* the response whose search raises, 0 for none.  o: what the environment  *)
(* decides in the refit.  Of cv_results_ only its existence is kept.       *)
(***************************************************************************)
chooseFormula(s, choices, searchFailAt, refit, o) ==
    LET n  == Len(s.yLabels)
        s0 == [s EXCEPT !.attrs = @ \cup {"cv_results_"}]
    IN  IF searchFailAt \in 1..n
          THEN [self |-> [s0 EXCEPT !.yLabels = <<s.yLabels[searchFailAt]>>],
                exc |-> "GridSearchCV"]
          ELSE LET s1 == [s0 EXCEPT !.formulas = Tup(choices),
                                    !.yLabels = s.yLabels]
               IN  IF refit THEN fitD(s1, o)
                   ELSE [self |-> s1, exc |-> "none"]

(***************************************************************************)
(* The estimator's state machine                                           *)
(***************************************************************************)
Idle == [op |-> "none", exc |-> "none", ret |-> <<>>]
NoPlot == [fn |-> "none"]

InitEstimator ==
    /\ \E x \in XLabelLists, y \in YLabelLists, f \in FormulaValues :
         /\ self = [xLabels |-> x, yLabels |-> y, formulas |-> f,
                    attrs |-> {}, models_ |-> NoModels, factors_ |-> NoModels]
         /\ given = f
    /\ last = Idle

Init == InitEstimator /\ plot = NoPlot

FitD ==
    \E o \in FitOutcomes(Len(self.yLabels)) :
      LET r == fitD(self, o)
      IN  /\ self' = r.self
          /\ last' = [op |-> "fitD", exc |-> r.exc, ret |-> <<>>]
          /\ UNCHANGED <<given, plot>>

PredictD ==
    \E arrayOK \in BOOLEAN, failAt \in 0..Len(self.yLabels) :
      LET r == predictD(self, arrayOK, failAt)
      IN  /\ last' = [op |-> "predictD", exc |-> r.exc, ret |-> r.ret]
          /\ UNCHANGED <<self, given, plot>>

ChooseFormula ==
    \E searchFailAt \in 0..Len(self.yLabels), refit \in BOOLEAN :
      \E choices \in IF searchFailAt = 0
                       THEN [1..Len(self.yLabels) -> FormulaStrings] ELSE {<<>>},
         o \in IF searchFailAt = 0 /\ refit
                 THEN FitOutcomes(Len(self.yLabels)) ELSE {FitOk} :
        LET r == chooseFormula(self, choices, searchFailAt, refit, o)
        IN  /\ self' = r.self
            /\ last' = [op |-> "chooseFormula", exc |-> r.exc, ret |-> <<>>]
            /\ given' = IF searchFailAt = 0 THEN Tup(choices) ELSE given
            /\ UNCHANGED plot

\* The caller assigns the yLabels attribute between calls.
SetYLabels ==
    \E y \in YLabelLists :
      /\ y # self.yLabels
      /\ self' = [self EXCEPT !.yLabels = y]
      /\ last' = Idle
      /\ UNCHANGED <<given, plot>>

Next == FitD \/ PredictD \/ ChooseFormula \/ SetYLabels

Spec == Init /\ [][Next]_vars

(***************************************************************************)
(* Properties of the estimator                                             *)
(***************************************************************************)
\* The number of formulas fitD sees: a str counts as one.
NumFormulas(f) == IF f.isStr THEN 1 ELSE Len(f.seq)
\* The single formula of a str or of a 1-tuple.
TheFormula(f) == IF f.isStr THEN f.str ELSE f.seq[1]
ReachedFit(exc) == exc \in {"none", "lmer", "_factor"}

\* C1: a fitD call entered with a single formula (a str, or a sequence of
\* length 1) and n >= 1 yLabels leaves formulas a sequence of exactly n
\* entries, each the single formula given; every model it stores for a
\* yLabel was fitted with the text '<yLabel> ~ <that formula>', and when the
\* call returns normally there is such a model for each of the n yLabels.
C1_SingleFormulaBroadcast ==
    [][(FitD /\ NumFormulas(self.formulas) = 1 /\ Len(self.yLabels) >= 1) =>
          LET one == TheFormula(self.formulas)
              n == Len(self.yLabels)
          IN  /\ ~self'.formulas.isStr
              /\ Len(self'.formulas.seq) = n
              /\ \A i \in 1..n : self'.formulas.seq[i] = one
              /\ ReachedFit(last'.exc) =>
                    \A y \in DOMAIN self'.models_ :
                        self'.models_[y] = y \o " ~ " \o one
              /\ last'.exc = "none" =>
                    DOMAIN self'.models_ = Range(self.yLabels)]_vars

\* C1 witness: a fit of two responses from one formula string has returned.
C1_Witness ==
    /\ last.op = "fitD" /\ last.exc = "none"
    /\ "cv_results_" \notin self.attrs
    /\ given.isStr /\ given.str # ""
    /\ Len(self.yLabels) = 2
    /\ self.formulas = Tup(<<given.str, given.str>>)
    /\ DOMAIN self.models_ = Range(self.yLabels)

\* C2: a fitD call entered with a number of formulas that is neither 1 nor
\* len(yLabels) raises the formulas-length RuntimeError and leaves models_
\* and factors_ (existence and contents) as they were.
C2_LengthMismatchRaises ==
    [][(FitD /\ NumFormulas(self.formulas) \notin {1, Len(self.yLabels)}) =>
          /\ last'.exc = ErrLength
          /\ self'.attrs = self.attrs
          /\ self'.models_ = self.models_
          /\ self'.factors_ = self.factors_]_vars

\* C2 witness: the length error was raised on a fitted estimator, whose
\* models are still there.
C2_Witness ==
    /\ last.op = "fitD" /\ last.exc = ErrLength
    /\ CheckIsFitted(self)
    /\ DOMAIN self.models_ # {}
    /\ Len(self.formulas.seq) = 2 /\ Len(self.yLabels) = 1

\* C7 (as claimed): a fitD call entered with at least one of xLabels,
\* yLabels, formulas empty raises the 'must have xLabels, yLabels, and
\* formulas defined' RuntimeError and fits no model.
C7_AnyUndefinedRaises ==
    [][(FitD /\ (~TruthyList(self.xLabels) \/ ~TruthyList(self.yLabels)
                   \/ ~Truthy(self.formulas))) =>
          /\ last'.exc = ErrUndefined
          /\ self'.models_ = self.models_
          /\ self'.factors_ = self.factors_]_vars

\* C8 (as claimed): after a fitD call, however it ended, if models_ and
\* factors_ exist (predictD's fitted check passes) then both have exactly
\* the current yLabels as keys.
C8_FittedStatePerResponse ==
    (last.op = "fitD" /\ CheckIsFitted(self)) =>
        /\ DOMAIN self.models_ = Range(self.yLabels)
        /\ DOMAIN self.factors_ = Range(self.yLabels)

\* C9 (as claimed): chooseFormula leaves yLabels as it was on entry, on
\* every exit.
C9_ChooseFormulaKeepsYLabels ==
    [][ChooseFormula => self'.yLabels = self.yLabels]_vars

\* C10 (as claimed): for an estimator constructed with one formula string
\* and only ever fitted (yLabels reassigned between fits), every fitD call
\* with a non-empty yLabels ends without the formulas-length error and with
\* formulas holding one copy of the original formula per yLabel.
C10_BroadcastAcrossFits ==
    (/\ last.op = "fitD"
     /\ "cv_results_" \notin self.attrs
     /\ given.isStr
     /\ Len(self.formulas.seq) >= 1   \* no earlier fit had an empty yLabels
     /\ CheckIsFitted(self)           \* an earlier fit got to fitting,
     /\ Cardinality(DOMAIN self.factors_) = Len(self.formulas.seq)  \* and completed
     /\ Len(self.yLabels) >= 1) =>
        /\ last.exc # ErrLength
        /\ self.formulas = Tup([i \in 1..Len(self.yLabels) |-> given.str])

(***************************************************************************)
(* The plotting functions (statcast/tools/plot.py)                         *)
(*                                                                         *)
(* An array is the argument it was passed as, its shape, whether it is a   *)
(* pandas DataFrame, and whether it is the transpose of what the caller    *)
(* passed; its elements are named by the argument and their <<row,         *)
(* column>> place in it (a 1-D array's i-th element is at <<i, 1>>).  An   *)
(* optional list argument is None or a list.                               *)
(***************************************************************************)
MaxRows == 2    \* most rows of an input array
MaxCols == 2    \* most columns of an input array

LabelNames == <<"a", "b", "c", "d", "e">>
UnitNames == <<"m", "s", "kg", "K", "A">>
ColNames == <<"c1", "c2", "c3", "c4">>
NoneValue == "None"

NdArray(arg, shape) == [arg |-> arg, shape |-> shape, frame |-> FALSE, tr |-> FALSE]
DataFrame(arg, shape) == [arg |-> arg, shape |-> shape, frame |-> TRUE, tr |-> FALSE]
Shapes1D == {<<n>> : n \in 1..MaxRows}
Shapes2D == {<<r, c>> : r \in 1..MaxRows, c \in 0..MaxCols}
NdArrays(arg) == {NdArray(arg, s) : s \in Shapes1D \cup Shapes2D}
DataFrames(arg) == {DataFrame(arg, s) : s \in Shapes2D}

None == [none |-> TRUE, list |-> <<>>]
Some(l) == [none |-> FALSE, list |-> l]
OptLists(names, lo, hi) == {None} \cup {Some(SubSeq(names, 1, k)) : k \in lo..hi}

Min(S) == CHOOSE m \in S : \A k \in S : m <= k

\* A[:, None] on a 1-D array.
Promote(A) == IF Len(A.shape) = 1 THEN [A EXCEPT !.shape = <<A.shape[1], 1>>] ELSE A
\* A.T on a 2-D array.
Transpose(A) == [A EXCEPT !.shape = <<A.shape[2], A.shape[1]>>, !.tr = ~A.tr]
\* A[:, j] (and the j-th item of iterating A.T): the places it holds.
Column(A, j) ==
    [i \in 1..A.shape[1] |-> [arg |-> A.arg, at |-> IF A.tr THEN <<j, i>> ELSE <<i, j>>]]
\* frame.values, list(frame.columns)
Values(A) == [A EXCEPT !.frame = FALSE]
Columns(A) == SubSeq(ColNames, 1, A.shape[2])

Raised(e) == [done |-> TRUE, exc |-> e, ret |-> <<>>]
Returned(r) == [done |-> TRUE, exc |-> "none", ret |-> r]
Pending == [done |-> FALSE, exc |-> "none", ret |-> <<>>]

\* Every array transposed, whatever its row count.
RowVectorAlways(A) == Transpose(A)

\* correlationPlot, lines 44-47: a one-row array is read as a row vector.
RowVector(A) == IF A.shape[1] = 1 THEN Transpose(A) ELSE A

\* correlationPlot, lines 49-53 (and plotResiduals' defaults): one entry per column.
PerColumn(A, v) == [i \in 1..A.shape[2] |-> v]

\* correlationPlot, lines 59-61: the statistics of two series.  Series of
\* different lengths do not broadcast unless one has a single element; on
\* fewer than two points, or on a broadcast pair, scipy decides (statsOK).
StatsRaise(a, b, statsOK) ==
    IF a # b THEN (IF a = 1 \/ b = 1 THEN ~statsOK ELSE TRUE)
    ELSE a < 2 /\ ~statsOK

\* correlationPlot, lines 63-89: the figure of one zipped column.
CorrelationFigure(y, yp, label, unit) ==
    [y |-> y, yp |-> yp,
     xlabel |-> IF unit # NoneValue THEN "Actual (" \o unit \o ")" ELSE "Actual",
     ylabel |-> IF unit # NoneValue THEN "Prediction (" \o unit \o ")" ELSE "Prediction",
     title |-> label,
     legend |-> <<"RMSE", "R2", "MAE">>]

correlationPlot(Y, Yp, labels, units, statsOK) ==
    LET labels1 == IF Y.frame /\ labels.none THEN Some(Columns(Y)) ELSE labels
        Y2 == RowVector(Promote(Values(Y)))
        Yp2 == RowVector(Promote(Values(Yp)))
        labels2 == IF labels1.none THEN PerColumn(Y2, NoneValue) ELSE labels1.list
        units2 == IF units.none THEN PerColumn(Y2, NoneValue) ELSE units.list
        \* zip stops at its shortest argument
        count == Min({Y2.shape[2], Yp2.shape[2], Len(labels2), Len(units2)})
    IN  IF count >= 1 /\ StatsRaise(Y2.shape[1], Yp2.shape[1], statsOK)
          THEN Raised("ValueError")
          ELSE Returned([i \in 1..count |->
                  CorrelationFigure(Column(Y2, i), Column(Yp2, i),
                                    labels2[i], units2[i])])

\* plotPrecRec, lines 162-163.
RowCountsDiffer(y, yp) == y.shape[1] # yp.shape[1]

\* plotPrecRec: curveOK says precision_recall_curve accepts the data; the
\* result is the new figure when no axis was passed, else the axis.
plotPrecRec(y, yp, ax, curveOK) ==
    IF RowCountsDiffer(y, yp) THEN Raised("Number of rows in y & yp must match")
    ELSE IF ~curveOK THEN Raised("precision_recall_curve")
    ELSE Returned(IF ax = NoneValue THEN "fig" ELSE ax)

\* np.unique(y), line 189 (line 186's identity test is never true).
Unique(y) == {y[i] : i \in 1..Len(y)}

\* plotPrecRecMN, line 194: the chained comparison, negated.
ClassCountsDiffer(classes, yp, labels) ==
    ~(Cardinality(classes) = yp.shape[2] /\ yp.shape[2] = Len(labels))

\* plotPrecRecMN: y is a 1-D array of class values.
plotPrecRecMN(y, yp, ax, labels, curveOK) ==
    LET classes == Unique(y)
        \* labels default to the sorted classes
        labels1 == IF labels.none
                     THEN CHOOSE s \in [1..Cardinality(classes) -> classes] :
                            \A i, j \in 1..Cardinality(classes) : i < j => s[i] < s[j]
                     ELSE labels.list
    IN  IF Len(yp.shape) < 2 THEN Raised("IndexError")
        ELSE IF ClassCountsDiffer(classes, yp, labels1)
          THEN Raised("Number of classes in y must match number of columns in yp and number labels.")
        ELSE IF Len(y) # yp.shape[1] THEN Raised("Number of rows in y & yp must match.")
        ELSE IF ~curveOK THEN Raised("precision_recall_curve")
        ELSE Returned(IF ax = NoneValue THEN "fig" ELSE ax)

\* plotResiduals, lines 242 and 246: the two shape tests.
ShapesDiffer(Y, Yp) == Y.shape # Yp.shape
RowsDifferShorterOnly(X, Y) == X.shape[1] < Y.shape[1]
RowsDiffer(X, Y) == X.shape[1] # Y.shape[1]

\* plotResiduals, lines 250-259 and 269-278: labels default to the frame's
\* columns, or to one empty string per column.
DefaultLabels(A) == IF A.frame THEN Columns(A) ELSE PerColumn(A, "")
LabelsMismatch(labels, A) == ~labels.none /\ Len(labels.list) # A.shape[2]

\* plotResiduals, lines 261-267 and 282-288: units are appended to labels.
UnitsMismatchLongerOnly(units, labels) ==
    ~units.none /\ Len(units.list) > Len(labels)
UnitsMismatch(units, labels) == ~units.none /\ Len(units.list) # Len(labels)
WithUnits(labels, units) ==
    IF units.none THEN labels
    ELSE [i \in 1..Len(labels) |->
            IF i <= Len(units.list) THEN labels[i] \o " (" \o units.list[i] \o ")"
            ELSE labels[i]]

\* plotResiduals, line 280.
ErrorLabels(labels) == [j \in 1..Len(labels) |-> labels[j] \o " Error"]

\* The residual taken the other way round, Y - Yp.
ResidualAxisSwapped(X, Y, Yp, i, j, xLabel, yLabels) ==
    [x |-> Column(X, i), minuend |-> Column(Y, j), subtrahend |-> Column(Yp, j),
     ylabel |-> yLabels[j],
     xlabel |-> IF j = Len(yLabels) THEN xLabel ELSE ""]

\* plotResiduals, lines 293-297: subplot j of the figure of X's column i;
\* the x label is set on the last subplot only.
ResidualAxis(X, Y, Yp, i, j, xLabel, yLabels) ==
    [x |-> Column(X, i), minuend |-> Column(Yp, j), subtrahend |-> Column(Y, j),
     ylabel |-> yLabels[j],
     xlabel |-> IF j = Len(yLabels) THEN xLabel ELSE ""]

\* plotResiduals, lines 291-298.
ResidualFigure(X, Y, Yp, i, xLabel, yLabels) ==
    [j \in 1..Len(yLabels) |-> ResidualAxis(X, Y, Yp, i, j, xLabel, yLabels)]

plotResiduals(X, Y, Yp, xLabels, xUnits, yLabels, yUnits) ==
    LET X1 == Promote(X)
        Y1 == Promote(Y)
        Yp1 == Promote(Yp)
        xl == IF xLabels.none THEN DefaultLabels(X1) ELSE xLabels.list
        yl == ErrorLabels(IF yLabels.none THEN DefaultLabels(Y1) ELSE yLabels.list)
        xl2 == WithUnits(xl, xUnits)
        yl2 == WithUnits(yl, yUnits)
    IN  IF ShapesDiffer(Y1, Yp1) THEN Raised("Y and Yp must have same dimensions")
        ELSE IF RowsDiffer(X1, Y1) THEN Raised("X and Y must have same number of rows")
        ELSE IF LabelsMismatch(xLabels, X1) THEN Raised("xLabels must have same length")
        ELSE IF UnitsMismatch(xUnits, xl) THEN Raised("xUnits must have same length")
        ELSE IF LabelsMismatch(yLabels, Y1) THEN Raised("yLabels must have same length")
        ELSE IF UnitsMismatch(yUnits, yl) THEN Raised("yUnits must have same length")
        ELSE IF Len(xl2) = 0 THEN Returned(<<>>)
        \* X[:, i] and Y[:, j] are not DataFrame indexing
        ELSE IF Len(yl2) >= 1 /\ (X1.frame \/ Y1.frame \/ Yp1.frame) THEN Raised("TypeError")
        \* line 297 reads ax, which no subplot has bound
        ELSE IF Len(yl2) = 0 THEN Raised("UnboundLocalError")
        ELSE Returned([i \in 1..Len(xl2) |->
                         ResidualFigure(X1, Y1, Yp1, i, xl2[i], yl2)])

(***************************************************************************)
(* The plotting calls: Init draws a function and its arguments, the action *)
(* applies it.                                                             *)
(***************************************************************************)
MaxClasses == 2   \* class values available to plotPrecRecMN's y

AnyArrays(arg) == NdArrays(arg) \cup DataFrames(arg)
ClassArrays == UNION {[1..n -> 1..MaxClasses] : n \in 1..MaxRows}
AxArgs == {NoneValue, "ax"}

Call(fn, args) == [fn |-> fn, args |-> args, out |-> Pending]

InitPlotCall ==
    \/ \E Y \in AnyArrays("Y"), Yp \in AnyArrays("Yp"),
          l \in OptLists(LabelNames, 0, MaxCols + 1),
          u \in OptLists(UnitNames, 0, MaxCols + 1) :
         plot = Call("correlationPlot",
                     [Y |-> Y, Yp |-> Yp, labels |-> l, units |-> u])
    \/ \E y \in NdArrays("y"), yp \in NdArrays("yp"), ax \in AxArgs :
         plot = Call("plotPrecRec", [y |-> y, yp |-> yp, ax |-> ax])
    \/ \E y \in ClassArrays, yp \in NdArrays("yp"), ax \in AxArgs,
          l \in OptLists(LabelNames, 0, MaxCols + 1) :
         plot = Call("plotPrecRecMN", [y |-> y, yp |-> yp, ax |-> ax, labels |-> l])
    \/ \E X \in AnyArrays("X"), Y \in AnyArrays("Y"), Yp \in NdArrays("Yp"),
          xl \in OptLists(LabelNames, 1, MaxCols), xu \in OptLists(UnitNames, 1, MaxCols),
          yl \in OptLists(LabelNames, 1, MaxCols), yu \in OptLists(UnitNames, 1, MaxCols) :
         plot = Call("plotResiduals",
                     [X |-> X, Y |-> Y, Yp |-> Yp, xLabels |-> xl, xUnits |-> xu,
                      yLabels |-> yl, yUnits |-> yu])

InitPlot ==
    /\ InitPlotCall
    /\ self = [xLabels |-> <<>>, yLabels |-> <<>>, formulas |-> Tup(<<>>),
               attrs |-> {}, models_ |-> NoModels, factors_ |-> NoModels]
    /\ given = Tup(<<>>)
    /\ last = Idle

CorrelationPlot ==
    /\ plot.fn = "correlationPlot" /\ ~plot.out.done
    /\ \E statsOK \in BOOLEAN :
         plot' = [plot EXCEPT !.out =
                    correlationPlot(plot.args.Y, plot.args.Yp, plot.args.labels,
                                    plot.args.units, statsOK)]
    /\ UNCHANGED <<self, given, last>>

PlotPrecRec ==
    /\ plot.fn = "plotPrecRec" /\ ~plot.out.done
    /\ \E curveOK \in BOOLEAN :
         plot' = [plot EXCEPT !.out =
                    plotPrecRec(plot.args.y, plot.args.yp, plot.args.ax, curveOK)]
    /\ UNCHANGED <<self, given, last>>

PlotPrecRecMN ==
    /\ plot.fn = "plotPrecRecMN" /\ ~plot.out.done
    /\ \E curveOK \in BOOLEAN :
         plot' = [plot EXCEPT !.out =
                    plotPrecRecMN(plot.args.y, plot.args.yp, plot.args.ax,
                                  plot.args.labels, curveOK)]
    /\ UNCHANGED <<self, given, last>>

PlotResiduals ==
    /\ plot.fn = "plotResiduals" /\ ~plot.out.done
    /\ plot' = [plot EXCEPT !.out =
                  plotResiduals(plot.args.X, plot.args.Y, plot.args.Yp,
                                plot.args.xLabels, plot.args.xUnits,
                                plot.args.yLabels, plot.args.yUnits)]
    /\ UNCHANGED <<self, given, last>>

NextPlot == CorrelationPlot \/ PlotPrecRec \/ PlotPrecRecMN \/ PlotResiduals

SpecPlot == InitPlot /\ [][NextPlot]_vars

(***************************************************************************)
(* Properties of the plotting functions.  Rows and columns of an argument  *)
(* are those of the caller's array, a 1-D array of n elements counting as  *)
(* n rows and one column.                                                  *)
(***************************************************************************)
RowsOf(A) == A.shape[1]
ColsOf(A) == IF Len(A.shape) = 1 THEN 1 ELSE A.shape[2]
Done(fn) == plot.fn = fn /\ plot.out.done
Raises == plot.out.exc # "none" /\ plot.out.ret = <<>>
LenOr(opt, n) == IF opt.none THEN n ELSE Len(opt.list)
ColumnOf(A, j) == [r \in 1..RowsOf(A) |-> [arg |-> A.arg, at |-> <<r, j>>]]

\* C3: mismatched row counts raise.  plotResiduals raises when Y and Yp
\* differ in shape (rows or columns) or X and Y differ in rows; plotPrecRec
\* and plotPrecRecMN raise when y and yp differ in rows.  Nothing is
\* returned in any of these cases.
C3_RowMismatchRaises ==
    /\ Done("plotResiduals") =>
         LET a == plot.args
         IN  /\ (RowsOf(a.Y) # RowsOf(a.Yp) \/ ColsOf(a.Y) # ColsOf(a.Yp)) =>
                   Raises /\ plot.out.exc = "Y and Yp must have same dimensions"
             /\ (RowsOf(a.X) # RowsOf(a.Y)) => Raises
    /\ Done("plotPrecRec") =>
         ((RowsOf(plot.args.y) # RowsOf(plot.args.yp)) =>
             Raises /\ plot.out.exc = "Number of rows in y & yp must match")
    /\ Done("plotPrecRecMN") =>
         ((Len(plot.args.y) # RowsOf(plot.args.yp)) => Raises)

\* C3 witness: plotResiduals has raised on X and Y of different row counts,
\* Y and Yp having the same shape.
C3_Witness ==
    /\ Done("plotResiduals")
    /\ RowsOf(plot.args.X) > RowsOf(plot.args.Y)
    /\ plot.args.xLabels.none /\ plot.args.yLabels.none
    /\ plot.out.exc = "X and Y must have same number of rows"

\* C4: label-length mismatches raise.  plotResiduals raises when a supplied
\* xLabels (yLabels) differs in length from the columns of X (Y) and when a
\* supplied xUnits (yUnits) differs in length from the labels it goes with;
\* plotPrecRecMN raises unless the number of distinct classes of y, the
\* columns of yp and the number of labels are all equal.
C4_LabelMismatchRaises ==
    /\ Done("plotResiduals") =>
         LET a == plot.args
         IN  /\ (~a.xLabels.none /\ Len(a.xLabels.list) # ColsOf(a.X)) => Raises
             /\ (~a.yLabels.none /\ Len(a.yLabels.list) # ColsOf(a.Y)) => Raises
             /\ (~a.xUnits.none /\ Len(a.xUnits.list) # LenOr(a.xLabels, ColsOf(a.X)))
                   => Raises
             /\ (~a.yUnits.none /\ Len(a.yUnits.list) # LenOr(a.yLabels, ColsOf(a.Y)))
                   => Raises
    /\ Done("plotPrecRecMN") =>
         LET a == plot.args
             nClasses == Cardinality({a.y[i] : i \in 1..Len(a.y)})
         IN  (\/ Len(a.yp.shape) < 2
              \/ nClasses # a.yp.shape[2]
              \/ LenOr(a.labels, nClasses) # nClasses) => Raises

\* C4 witness: plotResiduals has raised on yUnits shorter than yLabels, all
\* the shapes and the other lengths agreeing.
C4_Witness ==
    /\ Done("plotResiduals")
    /\ ~plot.args.yUnits.none /\ ~plot.args.yLabels.none
    /\ Len(plot.args.yUnits.list) < Len(plot.args.yLabels.list)
    /\ plot.out.exc = "yUnits must have same length"

\* What C5 and its amendment conclude: k figures, the i-th from column i
\* of Y and column i of Yp.
OneFigurePerColumn(a, k) ==
    /\ plot.out.exc = "none"
    /\ Len(plot.out.ret) = k
    /\ \A i \in 1..k : /\ plot.out.ret[i].y = ColumnOf(a.Y, i)
                       /\ plot.out.ret[i].yp = ColumnOf(a.Yp, i)

\* C5 (as claimed): correlationPlot on Y with k >= 2 columns and at least
\* one row, Yp of the same shape, labels and units omitted or supplied (one
\* per column), returns k figures, the i-th from column i of Y and of Yp.
C5_OneFigurePerColumn ==
    Done("correlationPlot") =>
      LET a == plot.args
          k == ColsOf(a.Y)
      IN  (/\ Len(a.Y.shape) = 2 /\ k >= 2 /\ RowsOf(a.Y) >= 1
           /\ a.Yp.shape = a.Y.shape
           /\ LenOr(a.labels, k) = k /\ LenOr(a.units, k) = k)
          => OneFigurePerColumn(a, k)

\* C5 (amended): the same for Y with at least two rows, labels and units
\* each omitted or supplied with at least k entries.
C5_OneFigurePerColumnTwoRows ==
    Done("correlationPlot") =>
      LET a == plot.args
          k == ColsOf(a.Y)
      IN  (/\ Len(a.Y.shape) = 2 /\ k >= 2 /\ RowsOf(a.Y) >= 2
           /\ a.Yp.shape = a.Y.shape
           /\ LenOr(a.labels, k) >= k /\ LenOr(a.units, k) >= k)
          => OneFigurePerColumn(a, k)

\* C5 witness: two figures returned for a two-row, two-column Y with labels
\* and units supplied.
C5_Witness ==
    /\ Done("correlationPlot")
    /\ plot.args.Y.shape = <<2, 2>> /\ plot.args.Yp.shape = <<2, 2>>
    /\ ~plot.args.labels.none /\ ~plot.args.units.none
    /\ plot.out.exc = "none" /\ Len(plot.out.ret) = 2

\* The label plotResiduals derives from the j-th of the labels given (or
\* from nothing), a suffix and the j-th unit.
Derived(labels, units, j, suffix) ==
    (IF labels.none THEN "" ELSE labels.list[j]) \o suffix
      \o (IF units.none THEN "" ELSE " (" \o units.list[j] \o ")")

====
